---- MODULE Spec2Model ----
(***************************************************************************)
(* Streaming sharded dump / import of (id, vector, metadata) records,      *)
(* jina_commons/indexers/dump.py.                                          *)
(*                                                                         *)
(* A dump root is a directory whose entries are shard directories; a shard *)
(* directory holds the artifacts ids (text), vectors and metas (length     *)
(* prefixed payloads).  Files are sequences of bytes (0..255) or of        *)
(* characters.  The writer is modelled statement by statement, the readers *)
(* as the generator objects the import functions return.                   *)
(***************************************************************************)
EXTENDS Integers, Sequences, FiniteSets, TLC

\* ------------------------------------------------------------------------
\* Bounds of the model
\* ------------------------------------------------------------------------
MaxRecords == 3
MaxSize == 5
MaxShards == 3
MaxReadRecords == 2
MaxReadShards == 2

\* ------------------------------------------------------------------------
\* Program constants
\* ------------------------------------------------------------------------
BYTE_PADDING == 4
ITEMSIZE == 8
\* sys.byteorder: the writer and the readers run on the same platform
byteorder == "little"
EMPTY_BYTES == << >>

Writers == {1, 2}
Artifacts == {"vectors", "metas", "ids"}

\* Optional values all have the same shape so that they can be compared.
NoneV == [tag |-> "None", dtype |-> "-", v |-> << >>]
Bytes(b) == [tag |-> "bytes", dtype |-> "-", v |-> b]
NdArray(dt, elems) == [tag |-> "ndarray", dtype |-> dt, v |-> elems]

Min(a, b) == IF a < b THEN a ELSE b

\* ------------------------------------------------------------------------
\* Integer <-> bytes (int.to_bytes / int.from_bytes)
\* ------------------------------------------------------------------------
RECURSIVE to_bytes(_, _, _)
to_bytes(n, length, order) ==
    IF length = 0 THEN << >>
    ELSE IF order = "little"
         THEN << n % 256 >> \o to_bytes(n \div 256, length - 1, order)
         ELSE to_bytes(n \div 256, length - 1, order) \o << n % 256 >>

RECURSIVE from_bytes(_, _)
from_bytes(bs, order) ==
    IF bs = << >> THEN 0
    ELSE IF order = "little"
         THEN bs[1] + 256 * from_bytes(Tail(bs), order)
         ELSE 256 * from_bytes(SubSeq(bs, 1, Len(bs) - 1), order) + bs[Len(bs)]

\* ndarray.tobytes() of a float64 array: ITEMSIZE bytes per element.  An
\* element is identified with the integer value of its bit pattern.
RECURSIVE tobytes(_)
tobytes(elems) ==
    IF elems = << >> THEN << >>
    ELSE to_bytes(Head(elems), ITEMSIZE, byteorder) \o tobytes(Tail(elems))

\* np.frombuffer(buf, dtype=float64) for a buffer whose length is a
\* multiple of ITEMSIZE.
RECURSIVE frombuffer(_)
frombuffer(buf) ==
    IF buf = << >> THEN << >>
    ELSE << from_bytes(SubSeq(buf, 1, ITEMSIZE), byteorder) >>
         \o frombuffer(SubSeq(buf, ITEMSIZE + 1, Len(buf)))

\* ------------------------------------------------------------------------
\* Writer side encodings (_write_shard_files)
\* ------------------------------------------------------------------------
\* lines 117-122: None -> b'', ndarray -> astype(float64).tobytes() (the
\* cast of a narrower float keeps the value of every element), bytes as is
VecBytes(vec) ==
    IF vec.tag = "None" THEN EMPTY_BYTES
    ELSE IF vec.tag = "ndarray" THEN tobytes(vec.v)
    ELSE vec.v

\* lines 124-125
MetaBytes(meta) == IF meta.tag = "None" THEN EMPTY_BYTES ELSE meta.v

\* lines 123, 126: len(x).to_bytes(BYTE_PADDING, sys.byteorder) + x
\* (payloads here are far shorter than 256^BYTE_PADDING, the length at
\* which to_bytes raises OverflowError)
Framed(payload) == to_bytes(Len(payload), BYTE_PADDING, byteorder) \o payload

\* line 127
IdLine(id_) == id_ \o << "\n" >>

SizeThisShardNoExtra(sid, nshards, total) == total \div nshards

\* lines 73-80
SizeThisShard(sid, nshards, total) ==
    LET size_per_shard == total \div nshards
        extra == total % nshards
    IN  IF sid = nshards - 1 THEN size_per_shard + extra ELSE size_per_shard

\* str(shard_id), line 94
ShardName(sid) == ToString(sid)

\* the artifacts that hold exactly the records recs, in that order
RECURSIVE IdsOf(_)
IdsOf(recs) ==
    IF recs = << >> THEN << >> ELSE IdLine(Head(recs).id) \o IdsOf(Tail(recs))

RECURSIVE VectorsOf(_)
VectorsOf(recs) ==
    IF recs = << >> THEN << >>
    ELSE Framed(VecBytes(Head(recs).vec)) \o VectorsOf(Tail(recs))

RECURSIVE MetasOf(_)
MetasOf(recs) ==
    IF recs = << >> THEN << >>
    ELSE Framed(MetaBytes(Head(recs).meta)) \o MetasOf(Tail(recs))

\* ------------------------------------------------------------------------
\* File system
\* ------------------------------------------------------------------------
EmptyDir == [has |-> {}, vectors |-> << >>, metas |-> << >>, ids |-> << >>]
EmptyFS == [n \in {} |-> EmptyDir]

\* os.makedirs(shard_path) on a name that does not exist yet
MkDir(f, name) ==
    [n \in DOMAIN f \cup {name} |-> IF n = name THEN EmptyDir ELSE f[n]]

\* what artifact a of the shard directory d holds
Content(d, a) ==
    IF a = "ids" THEN d.ids ELSE IF a = "metas" THEN d.metas ELSE d.vectors

OpenWExistingOnly(d, a) ==
    [d EXCEPT !.vectors = IF a = "vectors" THEN << >> ELSE @,
              !.metas = IF a = "metas" THEN << >> ELSE @,
              !.ids = IF a = "ids" THEN << >> ELSE @]

\* open(fp, 'w' / 'wb'): create or truncate
OpenW(d, a) ==
    [d EXCEPT !.has = @ \cup {a},
              !.vectors = IF a = "vectors" THEN << >> ELSE @,
              !.metas = IF a = "metas" THEN << >> ELSE @,
              !.ids = IF a = "ids" THEN << >> ELSE @]

FileWritePrepend(d, a, bs) ==
    [d EXCEPT !.vectors = IF a = "vectors" THEN bs \o @ ELSE @,
              !.metas = IF a = "metas" THEN bs \o @ ELSE @,
              !.ids = IF a = "ids" THEN bs \o @ ELSE @]

\* fh.write(bs) on a handle opened for writing
FileWrite(d, a, bs) ==
    [d EXCEPT !.vectors = IF a = "vectors" THEN @ \o bs ELSE @,
              !.metas = IF a = "metas" THEN @ \o bs ELSE @,
              !.ids = IF a = "ids" THEN @ \o bs ELSE @]

DirExistsIgnored(f, name) == FALSE

\* os.makedirs(shard_path) raises FileExistsError when the name is there
\* (exist_ok is left at its default), line 96
DirExists(f, name) == name \in DOMAIN f

\* a file object open for writing: the shard directory and the artifact
Handle(name, a) == << name, a >>

\* the artifacts of shard directory name among the handles in opened
OpenedIn(opened, name) == { h[2] : h \in { g \in opened : g[1] = name } }

CloseAllLeak(opened) == opened

\* leaving the with statement closes every file it opened, lines 98-100:
\* the handles that stay open
CloseAll(opened) == {}

MoreToWriteInclusive(written, quota) == written <= quota

\* the loop test of _write_shard_data, line 102
MoreToWrite(written, quota) == written < quota

\* the order in which the with statement opens the artifacts, lines 98-100
NextToOpen(opened) ==
    IF "vectors" \notin opened THEN "vectors"
    ELSE IF "metas" \notin opened THEN "metas"
    ELSE "ids"

\* ------------------------------------------------------------------------
\* Inputs
\* ------------------------------------------------------------------------
Rec(id_, vec, meta) == [id |-> id_, vec |-> vec, meta |-> meta]

Records ==
    { Rec(<<"a">>, NdArray("f8", <<1>>), Bytes(<<7>>)),
      Rec(<<"b">>, NoneV, NoneV),
      Rec(<<"c">>, NdArray("f4", <<2, 3>>), Bytes(<< >>)),
      Rec(<<"d", " ">>, NdArray("f4", <<3>>), Bytes(<<8, 9>>)) }

RECURSIVE SeqsUpTo(_, _)
SeqsUpTo(S, n) ==
    IF n = 0 THEN { << >> }
    ELSE LET shorter == SeqsUpTo(S, n - 1)
         IN  shorter \cup { Append2[1] \o << Append2[2] >> :
                            Append2 \in { s \in shorter : Len(s) = n - 1 } \X S }

ShardCounts == (-1) .. MaxShards
Sizes == 0 .. MaxSize

\* the dump root before the dump: absent, empty, holding a foreign entry,
\* holding shard 0 of an earlier dump
OldShard ==
    [has |-> Artifacts,
     vectors |-> Framed(tobytes(<<1>>)),
     metas |-> Framed(<<7>>),
     ids |-> IdLine(<<"z">>)]

InitialTrees ==
    { [root |-> "absent", fs |-> EmptyFS],
      [root |-> "dir", fs |-> EmptyFS],
      [root |-> "dir", fs |-> MkDir(EmptyFS, "x")],
      [root |-> "dir", fs |-> [n \in {"0"} |-> OldShard]] }

VARIABLES
    root,               \* "absent" or "dir": the dump root
    fs,                 \* entries of the dump root: name -> directory
    shards, size, data, \* arguments of export_dump_streaming, per writer
    wpc,                \* position of each writer in the code
    shard_id,           \* loop variable of _handle_dump
    size_this_shard,    \* argument of _write_shard_data
    shard_docs_written, \* local of _write_shard_data
    pulled,             \* number of records taken from the data generator
    rec,                \* the record returned by next(data)
    wopen,              \* the handles the writer holds open for writing
    synced,             \* how much of each open artifact has reached the disk
    exc,                \* the exception that ended the dump
    passed,             \* the sizes passed to _write_shard_data so far
    sess,               \* the import call whose generators are alive
    gens,               \* the generator objects that call returned
    got,                \* what completed imports of a finished dump yielded
    sess2,              \* a second import call, alive at the same time
    gens2               \* the generator objects the second call returned

wvars == << root, fs, shards, size, data, wpc, shard_id, size_this_shard,
            shard_docs_written, pulled, rec, wopen, synced, exc, passed >>
rvars == << sess, gens, got, sess2, gens2 >>
vars == << wvars, rvars >>

NoRec == Rec(<< >>, NoneV, NoneV)

\* the arguments of the dump call of each writer in `active`; the other
\* writers never run
InitWriters(active, counts, sizes, sources) ==
    /\ \E s \in [active -> counts], n \in [active -> sizes],
          d \in [active -> sources] :
          /\ shards = [w \in Writers |-> IF w \in active THEN s[w] ELSE 1]
          /\ size = [w \in Writers |-> IF w \in active THEN n[w] ELSE 0]
          /\ data = [w \in Writers |-> IF w \in active THEN d[w] ELSE << >>]
    /\ wpc = [w \in Writers |-> IF w \in active THEN "idle" ELSE "off"]
    /\ shard_id = [w \in Writers |-> 0]
    /\ size_this_shard = [w \in Writers |-> 0]
    /\ shard_docs_written = [w \in Writers |-> 0]
    /\ pulled = [w \in Writers |-> 0]
    /\ rec = [w \in Writers |-> NoRec]
    /\ wopen = [w \in Writers |-> {}]
    /\ synced = [w \in Writers |-> [a \in Artifacts |-> 0]]
    /\ exc = [w \in Writers |-> "-"]
    /\ passed = [w \in Writers |-> << >>]

InitTree ==
    \E t \in InitialTrees : root = t.root /\ fs = t.fs

\* ------------------------------------------------------------------------
\* The writer: export_dump_streaming -> _handle_dump -> _write_shard_data
\*             -> _write_shard_files
\* ------------------------------------------------------------------------
\* an exception leaves every frame: the with statement of _write_shard_data
\* closes the artifacts and the dump call ends with the exception
Raise(w, e) ==
    /\ wpc' = [wpc EXCEPT ![w] = "error"]
    /\ exc' = [exc EXCEPT ![w] = e]
    /\ wopen' = [wopen EXCEPT ![w] = CloseAll(@)]

DirIsEmptyUnchecked(f) == TRUE

\* os.listdir(path) is empty, line 72
DirIsEmpty(f) == DOMAIN f = {}

OnStopIterationSwallowed == "close"

\* next(data) on an exhausted generator raises StopIteration, which no
\* frame catches (line 115): where the writer goes next
OnStopIteration == "error"

\* export_dump_streaming is called; line 68: os.path.exists(path)
Call(w) ==
    /\ wpc[w] = "idle"
    /\ UNCHANGED << rvars, synced >>
    /\ wpc' = [wpc EXCEPT ![w] = IF root = "absent" THEN "makedirs" ELSE "listdir"]
    /\ UNCHANGED << root, fs, shards, size, data, shard_id, size_this_shard,
                    shard_docs_written, pulled, rec, wopen, exc, passed >>

\* line 69: os.makedirs(path)
HandleDumpMakedirs(w) ==
    /\ wpc[w] = "makedirs"
    /\ UNCHANGED << rvars, synced >>
    /\ IF root = "absent"
       THEN /\ root' = "dir"
            /\ wpc' = [wpc EXCEPT ![w] = "listdir"]
            /\ UNCHANGED << exc, wopen >>
       ELSE /\ Raise(w, "FileExistsError")
            /\ UNCHANGED root
    /\ UNCHANGED << fs, shards, size, data, shard_id, size_this_shard,
                    shard_docs_written, pulled, rec, passed >>

\* entering _write_shard_data for shard sid, lines 76-81
EnterShard(w, sid) ==
    /\ shard_id' = [shard_id EXCEPT ![w] = sid]
    /\ size_this_shard' =
          [size_this_shard EXCEPT ![w] = SizeThisShard(sid, shards[w], size[w])]
    /\ passed' = [passed EXCEPT
                    ![w] = @ \o << SizeThisShard(sid, shards[w], size[w]) >>]
    /\ wpc' = [wpc EXCEPT ![w] = "mkshard"]

\* lines 72-76 and 82-85: the emptiness check, the plan, the first shard
HandleDumpListdir(w) ==
    /\ wpc[w] = "listdir"
    /\ UNCHANGED << rvars, synced >>
    /\ IF ~ DirIsEmpty(fs)
       THEN /\ Raise(w, "Exception")
            /\ UNCHANGED << shard_id, size_this_shard, passed >>
       ELSE IF shards[w] = 0
       THEN /\ Raise(w, "ZeroDivisionError")
            /\ UNCHANGED << shard_id, size_this_shard, passed >>
       ELSE IF shards[w] < 0
       THEN \* range(shards) is empty: the loop body never runs
            /\ wpc' = [wpc EXCEPT ![w] = "done"]
            /\ UNCHANGED << shard_id, size_this_shard, passed, exc, wopen >>
       ELSE /\ EnterShard(w, 0)
            /\ UNCHANGED << exc, wopen >>
    /\ UNCHANGED << root, fs, shards, size, data, shard_docs_written, pulled,
                    rec >>

\* lines 94-96: shard_docs_written = 0; os.makedirs(shard_path)
WriteShardMakedirs(w) ==
    /\ wpc[w] = "mkshard"
    /\ UNCHANGED << rvars, synced >>
    /\ IF DirExists(fs, ShardName(shard_id[w]))
       THEN /\ Raise(w, "FileExistsError")
            /\ UNCHANGED fs
       ELSE /\ fs' = MkDir(fs, ShardName(shard_id[w]))
            /\ wpc' = [wpc EXCEPT ![w] = "open"]
            /\ UNCHANGED << exc, wopen >>
    /\ shard_docs_written' = [shard_docs_written EXCEPT ![w] = 0]
    /\ UNCHANGED << root, shards, size, data, shard_id, size_this_shard,
                    pulled, rec, passed >>

\* lines 98-100: one open() of the with statement
WriteShardOpen(w) ==
    /\ wpc[w] = "open"
    /\ UNCHANGED rvars
    /\ LET name == ShardName(shard_id[w])
           a == NextToOpen(OpenedIn(wopen[w], name))
       IN  /\ fs' = [fs EXCEPT ![name] = OpenW(@, a)]
           /\ wopen' = [wopen EXCEPT ![w] = @ \cup {Handle(name, a)}]
           /\ synced' = [synced EXCEPT ![w][a] = 0]
           /\ wpc' = [wpc EXCEPT
                        ![w] = IF OpenedIn(wopen[w], name) \cup {a} = Artifacts
                               THEN "loop" ELSE "open"]
    /\ UNCHANGED << root, shards, size, data, shard_id, size_this_shard,
                    shard_docs_written, pulled, rec, exc, passed >>

\* line 102: while shard_docs_written < size_this_shard
WriteShardLoop(w) ==
    /\ wpc[w] = "loop"
    /\ UNCHANGED << rvars, synced >>
    /\ wpc' = [wpc EXCEPT
                 ![w] = IF MoreToWrite(shard_docs_written[w], size_this_shard[w])
                        THEN "next" ELSE "close"]
    /\ UNCHANGED << root, fs, shards, size, data, shard_id, size_this_shard,
                    shard_docs_written, pulled, rec, wopen, exc, passed >>

\* line 115: id_, vec, meta = next(data)
WriteShardFilesNext(w) ==
    /\ wpc[w] = "next"
    /\ UNCHANGED << rvars, synced >>
    /\ IF pulled[w] < Len(data[w])
       THEN /\ rec' = [rec EXCEPT ![w] = data[w][pulled[w] + 1]]
            /\ pulled' = [pulled EXCEPT ![w] = @ + 1]
            /\ wpc' = [wpc EXCEPT ![w] = "write_vec"]
            /\ UNCHANGED << exc, wopen >>
       ELSE /\ wpc' = [wpc EXCEPT ![w] = OnStopIteration]
            /\ exc' = [exc EXCEPT ![w] = "StopIteration"]
            /\ wopen' = [wopen EXCEPT
                           ![w] = IF OnStopIteration = "error"
                                  THEN CloseAll(@) ELSE @]
            /\ UNCHANGED << rec, pulled >>
    /\ UNCHANGED << root, fs, shards, size, data, shard_id, size_this_shard,
                    shard_docs_written, passed >>

\* lines 117-123: the vector payload
WriteVector(w) ==
    /\ wpc[w] = "write_vec"
    /\ UNCHANGED << rvars, synced >>
    /\ fs' = [fs EXCEPT ![ShardName(shard_id[w])] =
                           FileWrite(@, "vectors", Framed(VecBytes(rec[w].vec)))]
    /\ wpc' = [wpc EXCEPT ![w] = "write_meta"]
    /\ UNCHANGED << root, shards, size, data, shard_id, size_this_shard,
                    shard_docs_written, pulled, rec, wopen, exc, passed >>

\* lines 124-126: the metadata payload
WriteMeta(w) ==
    /\ wpc[w] = "write_meta"
    /\ UNCHANGED << rvars, synced >>
    /\ fs' = [fs EXCEPT ![ShardName(shard_id[w])] =
                           FileWrite(@, "metas", Framed(MetaBytes(rec[w].meta)))]
    /\ wpc' = [wpc EXCEPT ![w] = "write_id"]
    /\ UNCHANGED << root, shards, size, data, shard_id, size_this_shard,
                    shard_docs_written, pulled, rec, wopen, exc, passed >>

\* line 127 and line 104: the id line, then shard_docs_written += 1
WriteId(w) ==
    /\ wpc[w] = "write_id"
    /\ UNCHANGED << rvars, synced >>
    /\ fs' = [fs EXCEPT ![ShardName(shard_id[w])] =
                           FileWrite(@, "ids", IdLine(rec[w].id))]
    /\ shard_docs_written' = [shard_docs_written EXCEPT ![w] = @ + 1]
    /\ wpc' = [wpc EXCEPT ![w] = "loop"]
    /\ UNCHANGED << root, shards, size, data, shard_id, size_this_shard,
                    pulled, rec, wopen, exc, passed >>

\* the with statement ends (lines 98-106), _write_shard_data returns and
\* the for loop of _handle_dump goes to the next shard (lines 76-81)
WriteShardClose(w) ==
    /\ wpc[w] = "close"
    /\ UNCHANGED << rvars, synced >>
    /\ wopen' = [wopen EXCEPT ![w] = CloseAll(@)]
    /\ IF shard_id[w] = shards[w] - 1
       THEN /\ wpc' = [wpc EXCEPT ![w] = "done"]
            /\ UNCHANGED << shard_id, size_this_shard, passed >>
       ELSE EnterShard(w, shard_id[w] + 1)
    /\ UNCHANGED << root, fs, shards, size, data, shard_docs_written, pulled,
                    rec, exc >>

\* the artifacts whose write call is running or has just returned at pc
Flushable(pc) ==
    IF pc = "write_vec" THEN {"vectors"}
    ELSE IF pc = "write_meta" THEN {"vectors", "metas"}
    ELSE IF pc = "write_id" THEN {"metas", "ids"}
    ELSE IF pc = "loop" THEN {"ids"}
    ELSE {}

WrittenThroughTorn(file) == Len(file) - 1

\* how much of an artifact is on disk once its buffer was written through
WrittenThrough(file) == Len(file)

\* the files are opened with the default buffering (lines 98-100): write()
\* collects the data in the buffer of the file object, and the buffer is
\* written through inside a write() call (lines 123, 126, 127) when it
\* overflows, before the new data is buffered or with it; the sizes of
\* the payloads decide when, not the number of records
Flush(w) ==
    /\ \E a \in Flushable(wpc[w]) :
          LET file == Content(fs[ShardName(shard_id[w])], a)
          IN  /\ Handle(ShardName(shard_id[w]), a) \in wopen[w]
              /\ synced[w][a] < Len(file)
              /\ synced' = [synced EXCEPT ![w][a] = WrittenThrough(file)]
    /\ UNCHANGED << root, fs, shards, size, data, wpc, shard_id,
                    size_this_shard, shard_docs_written, pulled, rec, wopen,
                    exc, passed, rvars >>

WriterStep(w) ==
    \/ Call(w)
    \/ HandleDumpMakedirs(w)
    \/ HandleDumpListdir(w)
    \/ WriteShardMakedirs(w)
    \/ WriteShardOpen(w)
    \/ WriteShardLoop(w)
    \/ WriteShardFilesNext(w)
    \/ WriteVector(w)
    \/ WriteMeta(w)
    \/ WriteId(w)
    \/ WriteShardClose(w)

\* ------------------------------------------------------------------------
\* The readers: import_vectors, import_metas, import_metas_and_vectors and
\* the generators _ids_gen, _vecs_gen, _metas_gen
\* ------------------------------------------------------------------------
GenKinds == {"ids", "metas", "vecs"}

\* the artifact a generator reads, lines 174, 180, 199
ArtifactOf(kind) == IF kind = "vecs" THEN "vectors" ELSE kind

\* the generators each import function makes, lines 139-141, 153-155, 167-170
KindsOf(api) ==
    IF api = "import_vectors" THEN {"ids", "vecs"}
    ELSE IF api = "import_metas" THEN {"ids", "metas"}
    ELSE {"ids", "metas", "vecs"}

\* os.path.join(path, pea_id): the names a caller may pass
PeaIds == { ShardName(i) : i \in 0 .. MaxReadShards - 1 } \cup {"x"}

HasFile(f, pea, a) == pea \in DOMAIN f /\ a \in f[pea].has

\* fh.read(n) at offset pos: the bytes that are there, n at most
ReadAt(file, pos, n) == SubSeq(file, pos + 1, Min(pos + n, Len(file)))

Whitespace == {" ", "\n", "\t", "\r"}

\* str.strip(), line 176
RECURSIVE LStrip(_)
LStrip(t) ==
    IF t # << >> /\ Head(t) \in Whitespace THEN LStrip(Tail(t)) ELSE t

RECURSIVE RStrip(_)
RStrip(t) ==
    IF t # << >> /\ t[Len(t)] \in Whitespace
    THEN RStrip(SubSeq(t, 1, Len(t) - 1)) ELSE t

Strip(t) == RStrip(LStrip(t))

\* one iteration of `for l in ids_fh: yield l.strip()`, lines 175-176
IdsStep(file, pos) ==
    IF pos >= Len(file)
    THEN [kind |-> "stop", val |-> << >>, pos |-> pos, hdr |-> << >>]
    ELSE LET ends == { i \in pos + 1 .. Len(file) : file[i] = "\n" }
             e == IF ends = {} THEN Len(file)
                  ELSE CHOOSE i \in ends : \A j \in ends : i <= j
         IN  [kind |-> "yield", val |-> Strip(SubSeq(file, pos + 1, e)),
              pos |-> e, hdr |-> << >>]

\* lines 182-185 and 201-204: the length prefix and the payload it announces
NextPayload(file, pos) ==
    LET hdr == ReadAt(file, pos, BYTE_PADDING)
        next_size == from_bytes(hdr, byteorder)
        body == ReadAt(file, pos + Len(hdr), next_size)
    IN  IF next_size # 0
        THEN [more |-> TRUE, payload |-> body, hdr |-> hdr,
              pos |-> pos + Len(hdr) + Len(body)]
        ELSE [more |-> FALSE, payload |-> << >>, hdr |-> hdr,
              pos |-> pos + Len(hdr)]

\* one iteration of the loop of _metas_gen, lines 200-210
MetasStep(file, pos) ==
    LET p == NextPayload(file, pos)
    IN  IF p.more
        THEN [kind |-> "yield",
              val |-> IF p.payload # EMPTY_BYTES THEN Bytes(p.payload) ELSE NoneV,
              pos |-> p.pos, hdr |-> p.hdr]
        ELSE [kind |-> "stop", val |-> NoneV, pos |-> p.pos, hdr |-> p.hdr]

\* one iteration of the loop of _vecs_gen, lines 181-195; np.frombuffer
\* raises ValueError when the buffer is not a whole number of elements
VecsStep(file, pos) ==
    LET p == NextPayload(file, pos)
    IN  IF p.more
        THEN IF p.payload # EMPTY_BYTES
             THEN IF Len(p.payload) % ITEMSIZE # 0
                  THEN [kind |-> "raise", val |-> NoneV, pos |-> p.pos,
                        hdr |-> p.hdr]
                  ELSE [kind |-> "yield",
                        val |-> NdArray("f8", frombuffer(p.payload)),
                        pos |-> p.pos, hdr |-> p.hdr]
             ELSE [kind |-> "yield", val |-> NoneV, pos |-> p.pos,
                   hdr |-> p.hdr]
        ELSE [kind |-> "stop", val |-> NoneV, pos |-> p.pos, hdr |-> p.hdr]

GenStep(kind, file, pos) ==
    IF kind = "ids" THEN IdsStep(file, pos)
    ELSE IF kind = "metas" THEN MetasStep(file, pos)
    ELSE VecsStep(file, pos)

\* a generator object: st is "none" (no such object), "created" (body not
\* started, no file open), "open" (suspended at a yield inside the with
\* statement), "done" (returned), "error" (raised), "closed" (close() was
\* called); hdr is what the last read of a length prefix returned; path is
\* the file the body passed to open(), fh the state of the file object
\* that call returned ("-" while there is none), opens the number of
\* times the body reached open()
NoGen ==
    [st |-> "none", pea |-> "-", pos |-> 0, hdr |-> << >>, out |-> << >>,
     exc |-> "-", path |-> << >>, fh |-> "-", opens |-> 0]

NewGenEager(f, kind, pea) ==
    IF HasFile(f, pea, ArtifactOf(kind))
    THEN [NoGen EXCEPT !.st = "open", !.pea = pea, !.fh = "open",
                       !.path = << pea, ArtifactOf(kind) >>, !.opens = 1]
    ELSE [NoGen EXCEPT !.st = "error", !.pea = pea, !.exc = "FileNotFoundError"]

\* calling a generator function runs none of its body, lines 139-140
NewGen(f, kind, pea) == [NoGen EXCEPT !.st = "created", !.pea = pea]

NoSess == [api |-> "-", pea |-> "-", at |-> "-"]
NotRead == [read |-> FALSE, ids |-> << >>, metas |-> << >>, vecs |-> << >>]

\* the scheduling is single threaded: a dump call runs to its end before
\* the caller can import or pull
Quiescent == \A w \in Writers : wpc[w] \in {"off", "idle", "done", "error"}

Import(api, pea) ==
    /\ Quiescent
    /\ sess = NoSess
    /\ sess' = [api |-> api, pea |-> pea, at |-> wpc[1]]
    /\ gens' = [k \in GenKinds |->
                  IF k \in KindsOf(api) THEN NewGen(fs, k, pea) ELSE NoGen]
    /\ UNCHANGED << wvars, got, sess2, gens2 >>

\* lines 130-141
ImportVectors == \E pea \in PeaIds : Import("import_vectors", pea)

\* lines 144-155
ImportMetas == \E pea \in PeaIds : Import("import_metas", pea)

\* lines 158-170
ImportMetasAndVectors ==
    \E pea \in PeaIds : Import("import_metas_and_vectors", pea)

GenPathShardZero(k, g) == << ShardName(0), ArtifactOf(k) >>

\* the file a generator of the import of g.pea opens: the artifact of its
\* kind in os.path.join(path, pea_id), lines 139, 174, 180, 199, 213-217
GenPath(k, g) == << g.pea, ArtifactOf(k) >>

\* next(gen) on a generator that has not finished: the first call opens
\* the artifact (lines 174, 180, 199), every call runs to the next yield,
\* to the end of the body or to an exception; leaving the with statement
\* closes the file
PullGen(f, k, g) ==
    LET first == g.st = "created"
        path == IF first THEN GenPath(k, g) ELSE g.path
        h == IF first
             THEN [g EXCEPT !.path = path, !.fh = "open", !.opens = @ + 1]
             ELSE g
    IN  IF first /\ ~ HasFile(f, path[1], path[2])
        THEN [g EXCEPT !.st = "error", !.exc = "FileNotFoundError",
                       !.path = path, !.opens = @ + 1]
        ELSE LET r == GenStep(k, Content(f[path[1]], path[2]), g.pos)
             IN  IF r.kind = "yield"
                 THEN [h EXCEPT !.st = "open", !.pos = r.pos, !.hdr = r.hdr,
                                !.out = @ \o << r.val >>]
                 ELSE IF r.kind = "stop"
                 THEN [h EXCEPT !.st = "done", !.pos = r.pos, !.hdr = r.hdr,
                                !.fh = "closed"]
                 ELSE [h EXCEPT !.st = "error", !.pos = r.pos, !.hdr = r.hdr,
                                !.exc = "ValueError", !.fh = "closed"]

AfterPullSharedCursor(f, gs, k) ==
    [j \in DOMAIN gs |->
       IF j = k THEN PullGen(f, k, gs[k])
       ELSE IF gs[j].st = "open"
       THEN [gs[j] EXCEPT !.pos = PullGen(f, k, gs[k]).pos]
       ELSE gs[j]]

\* the generators of one import call after next() on the one of kind k:
\* each generator object has its own frame, file object and position
AfterPull(f, gs, k) == [gs EXCEPT ![k] = PullGen(f, k, @)]

Pull ==
    /\ Quiescent
    /\ \E k \in GenKinds :
          /\ gens[k].st \in {"created", "open"}
          /\ gens' = AfterPull(fs, gens, k)
    /\ UNCHANGED << wvars, sess, got, sess2, gens2 >>

CloseGenLeak(g) == [g EXCEPT !.st = "closed"]

\* gen.close(): GeneratorExit is raised at the yield and leaves the with
\* statement, which closes the file; a generator that never started just
\* finishes
CloseGen(g) ==
    [g EXCEPT !.st = "closed", !.fh = IF @ = "open" THEN "closed" ELSE @]

\* the consumer abandons the sequence
Close ==
    /\ Quiescent
    /\ \E k \in GenKinds :
          /\ gens[k].st \in {"created", "open"}
          /\ gens' = [gens EXCEPT ![k] = CloseGen(@)]
    /\ UNCHANGED << wvars, sess, got, sess2, gens2 >>

\* the caller is through with the generators of the import call; what a
\* whole import_metas_and_vectors of a finished dump yielded is kept
Release ==
    /\ Quiescent
    /\ sess # NoSess
    /\ \A k \in GenKinds : gens[k].st \in {"none", "done", "error", "closed"}
    /\ got' = IF /\ sess.at = "done"
                 /\ \A k \in GenKinds : gens[k].st = "done"
              THEN [got EXCEPT ![sess.pea] =
                      [read |-> TRUE, ids |-> gens["ids"].out,
                       metas |-> gens["metas"].out, vecs |-> gens["vecs"].out]]
              ELSE got
    /\ sess' = NoSess
    /\ gens' = [k \in GenKinds |-> NoGen]
    /\ UNCHANGED << wvars, sess2, gens2 >>

Apis == {"import_vectors", "import_metas", "import_metas_and_vectors"}

\* a second import call made while the generators of the first are alive,
\* lines 130-170
SecondImport ==
    /\ Quiescent
    /\ sess2 = NoSess
    /\ \E api \in Apis, pea \in PeaIds :
          /\ sess2' = [api |-> api, pea |-> pea, at |-> wpc[1]]
          /\ gens2' = [k \in GenKinds |->
                         IF k \in KindsOf(api) THEN NewGen(fs, k, pea)
                         ELSE NoGen]
    /\ UNCHANGED << wvars, sess, gens, got >>

\* next() on a generator of the second call
SecondPull ==
    /\ Quiescent
    /\ \E k \in GenKinds :
          /\ gens2[k].st \in {"created", "open"}
          /\ gens2' = AfterPull(fs, gens2, k)
    /\ UNCHANGED << wvars, sess, gens, got, sess2 >>

InitReaders ==
    /\ sess = NoSess
    /\ gens = [k \in GenKinds |-> NoGen]
    /\ got = [p \in PeaIds |-> NotRead]
    /\ sess2 = NoSess
    /\ gens2 = [k \in GenKinds |-> NoGen]

\* ------------------------------------------------------------------------
\* Specification of one dump
\* ------------------------------------------------------------------------
InitDump ==
    /\ InitTree
    /\ InitReaders
    /\ InitWriters({1}, ShardCounts, Sizes, SeqsUpTo(Records, MaxRecords))

NextDump ==
    \/ Call(1)
    \/ HandleDumpMakedirs(1)
    \/ HandleDumpListdir(1)
    \/ WriteShardMakedirs(1)
    \/ WriteShardOpen(1)
    \/ WriteShardLoop(1)
    \/ WriteShardFilesNext(1)
    \/ WriteVector(1)
    \/ WriteMeta(1)
    \/ WriteId(1)
    \/ WriteShardClose(1)

SpecDump == InitDump /\ [][NextDump]_vars

\* ------------------------------------------------------------------------
\* Specification of a dump and the imports before and after it
\* ------------------------------------------------------------------------
Init ==
    /\ InitTree
    /\ InitReaders
    /\ InitWriters({1}, 1 .. MaxReadShards, 0 .. MaxReadRecords,
                   SeqsUpTo(Records, MaxReadRecords))

Next ==
    \/ NextDump
    \/ ImportVectors
    \/ ImportMetas
    \/ ImportMetasAndVectors
    \/ Pull
    \/ Close
    \/ Release

Spec == Init /\ [][Next]_vars

\* ------------------------------------------------------------------------
\* Specification of imports from a shard one of whose artifacts was cut
\* short (a dump interrupted in the middle of a write)
\* ------------------------------------------------------------------------
Prefixes(file) == { SubSeq(file, 1, n) : n \in 0 .. Len(file) }

TruncatedShards ==
    UNION { { [has |-> Artifacts, ids |-> IdsOf(recs), vectors |-> v,
               metas |-> MetasOf(recs)] : v \in Prefixes(VectorsOf(recs)) }
            \cup
            { [has |-> Artifacts, ids |-> IdsOf(recs),
               vectors |-> VectorsOf(recs), metas |-> m] :
              m \in Prefixes(MetasOf(recs)) } :
            recs \in SeqsUpTo(Records, MaxReadRecords) }

InitTruncated ==
    /\ root = "dir"
    /\ \E d \in TruncatedShards : fs = [n \in {"0"} |-> d]
    /\ InitReaders
    /\ InitWriters({}, {1}, {0}, { << >> })

NextRead ==
    \/ ImportVectors
    \/ ImportMetas
    \/ ImportMetasAndVectors
    \/ Pull
    \/ Close
    \/ Release

SpecTruncated == InitTruncated /\ [][NextRead]_vars

\* ------------------------------------------------------------------------
\* Properties of the dump
\* ------------------------------------------------------------------------
RECURSIVE SumSeq(_)
SumSeq(q) == IF q = << >> THEN 0 ELSE Head(q) + SumSeq(Tail(q))

\* the quota of shard i (0-based) as the planner's contract states it
Quota(i, n, total) ==
    IF i = n - 1 THEN (total \div n) + (total % n) ELSE total \div n

\* the records of the source from position from + 1, n of them at most
Slice(d, from, n) == SubSeq(d, from + 1, Min(from + n, Len(d)))

ShardNames(ids) == { ShardName(i) : i \in ids }

\* C3 - Quota conservation: for shard_count >= 1 the i-th size passed to
\* _write_shard_data is total_size // shard_count, plus total_size %
\* shard_count for the last shard; every size is a natural number, only the
\* last may exceed total_size // shard_count, and once every shard has been
\* entered the sizes sum to total_size.
QuotaConservation ==
    shards[1] >= 1 =>
      /\ Len(passed[1]) <= shards[1]
      /\ \A i \in 1 .. Len(passed[1]) :
            /\ passed[1][i] = Quota(i - 1, shards[1], size[1])
            /\ passed[1][i] \in Nat
            /\ passed[1][i] > size[1] \div shards[1] => i = shards[1]
      /\ Len(passed[1]) = shards[1] => SumSeq(passed[1]) = size[1]
      /\ wpc[1] = "done" => Len(passed[1]) = shards[1]

QuotaExample == shards[1] = 2 /\ size[1] = 5 /\ passed[1] = << 2, 3 >>

\* C4 - Sequential partition: the shard directories that exist are those of
\* an initial segment 0..shard_id of the shard indices; each holds, in its
\* three artifacts, the encodings of a contiguous run of the source that
\* starts at the sum of the earlier quotas, in pull order; the number of
\* records pulled is the number written (none skipped, none pulled twice);
\* a successful dump has filled every shard with its whole quota range.
InShard(i) ==
    IF i < shard_id[1] THEN Quota(i, shards[1], size[1])
    ELSE shard_docs_written[1]

SequentialPartition ==
    (shards[1] >= 1 /\ passed[1] # << >> /\ exc[1] = "-") =>
      LET q == size[1] \div shards[1]
          created == IF wpc[1] = "mkshard" THEN 0 .. shard_id[1] - 1
                     ELSE 0 .. shard_id[1]
          vecAhead == IF wpc[1] \in {"write_meta", "write_id"} THEN 1 ELSE 0
          metaAhead == IF wpc[1] = "write_id" THEN 1 ELSE 0
          inHand == IF wpc[1] \in {"write_vec", "write_meta", "write_id"}
                    THEN 1 ELSE 0
          last(i) == IF i = shard_id[1] THEN 1 ELSE 0
      IN  /\ DOMAIN fs = ShardNames(created)
          /\ \A i \in created :
                LET d == fs[ShardName(i)]
                IN  /\ d.ids = IdsOf(Slice(data[1], i * q, InShard(i)))
                    /\ d.vectors =
                         VectorsOf(Slice(data[1], i * q,
                                         InShard(i) + last(i) * vecAhead))
                    /\ d.metas =
                         MetasOf(Slice(data[1], i * q,
                                       InShard(i) + last(i) * metaAhead))
          /\ wpc[1] # "mkshard" =>
                pulled[1] = shard_id[1] * q + shard_docs_written[1] + inHand
          /\ inHand = 1 => rec[1] = data[1][pulled[1]]
          /\ wpc[1] = "done" =>
                /\ shard_id[1] = shards[1] - 1
                /\ shard_docs_written[1] = Quota(shard_id[1], shards[1], size[1])
                /\ pulled[1] = size[1]

PartitionedDump ==
    /\ wpc[1] = "done" /\ shards[1] = 2 /\ size[1] = 3
    /\ data[1][1] # data[1][2] /\ data[1][2] # data[1][3]

\* C5 - Non-empty target: while the dump has not passed its emptiness check
\* and the root holds an entry, a step changes neither the tree nor the
\* number of records pulled, and the check ends the dump with the
\* "contains data" exception; after that exception nothing changes.
NonEmptyTargetRejected ==
    [][ /\ ( /\ wpc[1] \in {"idle", "listdir"}
             /\ root = "dir"
             /\ DOMAIN fs # {} )
           => /\ fs' = fs /\ root' = root /\ pulled' = pulled
              /\ passed' = passed
              /\ wpc'[1] \in {"idle", "listdir", "error"}
              /\ wpc[1] = "listdir" =>
                    (wpc'[1] = "error" /\ exc'[1] = "Exception")
        /\ (wpc[1] = "error" /\ exc[1] = "Exception")
           => /\ fs' = fs /\ root' = root /\ pulled' = pulled
              /\ wpc'[1] = "error" /\ exc'[1] = "Exception"
      ]_vars

TargetWasRejected ==
    /\ wpc[1] = "error" /\ exc[1] = "Exception"
    /\ DOMAIN fs # {} /\ pulled[1] = 0 /\ size[1] > 0 /\ data[1] # << >>

\* C6 - Producer exhaustion: in a dump with shard_count >= 1 whose source
\* holds fewer than total_size records, the dump never completes; the pull
\* that finds the source exhausted ends it with StopIteration, and from
\* then on the writer holds no open artifact, the shard being written is
\* the first whose quota the source cannot fill, no later shard exists, and
\* the shards hold exactly the records pulled before the failure; a writer
\* that has been called and can take no further step has ended in an error.
FirstShort(n, total, len) ==
    CHOOSE i \in 0 .. n - 1 :
      /\ i * (total \div n) + Quota(i, n, total) > len
      /\ \A j \in 0 .. i - 1 : j * (total \div n) + Quota(j, n, total) <= len

ProducerExhaustion ==
    (shards[1] >= 1 /\ Len(data[1]) < size[1]) =>
      /\ wpc[1] # "done"
      /\ pulled[1] <= Len(data[1])
      /\ (wpc[1] # "idle" /\ ~ ENABLED WriterStep(1)) => wpc[1] = "error"
      /\ exc[1] = "StopIteration" =>
            LET q == size[1] \div shards[1]
            IN  /\ wpc[1] = "error"
                /\ wopen[1] = {}
                /\ pulled[1] = Len(data[1])
                /\ shard_id[1] = FirstShort(shards[1], size[1], Len(data[1]))
                /\ DOMAIN fs = ShardNames(0 .. shard_id[1])
                /\ \A i \in 0 .. shard_id[1] :
                      LET recs == Slice(data[1], i * q,
                                        Quota(i, shards[1], size[1]))
                      IN  fs[ShardName(i)] =
                            [has |-> Artifacts, ids |-> IdsOf(recs),
                             vectors |-> VectorsOf(recs),
                             metas |-> MetasOf(recs)]

ExhaustedInSecondShard ==
    /\ exc[1] = "StopIteration" /\ shard_id[1] = 1 /\ shards[1] = 3
    /\ fs["0"].ids # << >> /\ "2" \notin DOMAIN fs

\* C7 - Invalid shard count: a dump with shard_count < 1 does not complete
\* normally and writes no shard.
InvalidShardCountFails ==
    shards[1] < 1 => (wpc[1] # "done" /\ passed[1] = << >>)

\* ------------------------------------------------------------------------
\* Properties of the imports
\* ------------------------------------------------------------------------
\* every shard of the dump has been imported whole after the dump finished
AllRead ==
    \A j \in 0 .. shards[1] - 1 :
       ShardName(j) \in PeaIds /\ got[ShardName(j)].read

RECURSIVE CatIds(_)
CatIds(n) ==
    IF n = 0 THEN << >> ELSE CatIds(n - 1) \o got[ShardName(n - 1)].ids

RECURSIVE CatMetas(_)
CatMetas(n) ==
    IF n = 0 THEN << >> ELSE CatMetas(n - 1) \o got[ShardName(n - 1)].metas

RECURSIVE CatVecs(_)
CatVecs(n) ==
    IF n = 0 THEN << >> ELSE CatVecs(n - 1) \o got[ShardName(n - 1)].vecs

\* a vector as the reader is to return it: float64 elements of equal value
AsRead(vec) == IF vec.tag = "ndarray" THEN NdArray("f8", vec.v) ELSE vec

\* C1 - Round trip: after a successful dump with shard_count >= 1, the
\* ids, metas and vectors read from all shards and concatenated in shard
\* order have total_size entries each and equal the source entry by entry,
\* an absent value being read as absent.
RoundTrip ==
    (wpc[1] = "done" /\ shards[1] >= 1 /\ AllRead) =>
      LET src == SubSeq(data[1], 1, size[1])
      IN  /\ CatIds(shards[1]) = [i \in 1 .. Len(src) |-> src[i].id]
          /\ CatMetas(shards[1]) = [i \in 1 .. Len(src) |-> src[i].meta]
          /\ CatVecs(shards[1]) = [i \in 1 .. Len(src) |-> AsRead(src[i].vec)]

\* C2 - End of stream: a vectors or metas generator returns only when the
\* read of a length prefix gave no bytes at all, at the end of its artifact.
EndOnlyAtEndOfArtifact ==
    \A k \in {"metas", "vecs"} :
       gens[k].st = "done" =>
         /\ gens[k].hdr = << >>
         /\ gens[k].pos =
              Len(Content(fs[gens[k].pea], ArtifactOf(k)))

\* C8 - Absent versus present-empty: after a successful dump read back
\* whole, a record dumped with metadata b'' and a record dumped with
\* metadata None have different values in the metas sequence.
AbsentAndEmptyDistinguished ==
    (wpc[1] = "done" /\ shards[1] >= 1 /\ AllRead) =>
      LET metas == CatMetas(shards[1])
      IN  \A i, j \in 1 .. size[1] :
             (data[1][i].meta = Bytes(<< >>) /\ data[1][j].meta = NoneV) =>
               /\ i \in DOMAIN metas
               /\ j \in DOMAIN metas
               /\ metas[i] # metas[j]

\* an artifact that is a whole number of length-prefixed records
RECURSIVE WellFramed(_, _)
WellFramed(file, pos) ==
    IF pos = Len(file) THEN TRUE
    ELSE IF pos + BYTE_PADDING > Len(file) THEN FALSE
    ELSE LET n == from_bytes(SubSeq(file, pos + 1, pos + BYTE_PADDING),
                             byteorder)
         IN  IF pos + BYTE_PADDING + n > Len(file) THEN FALSE
             ELSE WellFramed(file, pos + BYTE_PADDING + n)

\* C9 - Truncation: a vectors or metas generator whose artifact ends in the
\* middle of a record never returns as if the artifact were complete.
TruncationDetected ==
    \A k \in {"metas", "vecs"} :
       ( /\ gens[k].st = "done"
         /\ gens[k].pea \in DOMAIN fs )
       => WellFramed(Content(fs[gens[k].pea], ArtifactOf(k)), 0)

\* C10 - Missing shard, as claimed: no import call returns a generator for
\* an artifact that does not exist (the call itself fails).
ImportFailsOnMissingShard ==
    \A k \in GenKinds :
       gens[k].st = "created" => HasFile(fs, gens[k].pea, ArtifactOf(k))

\* C10 - Missing shard, amended: every import call returns its generators
\* unstarted and without error, whether or not the shard exists; the first
\* pull of a generator whose artifact is missing at that moment raises
\* FileNotFoundError before anything is yielded, the first pull of one
\* whose artifact exists does not, and no later pull raises it.
LazyShardNotFound ==
    [][ /\ (sess = NoSess /\ sess' # NoSess) =>
             \A k \in GenKinds :
                gens'[k] = IF k \in KindsOf(sess'.api)
                           THEN [NoGen EXCEPT !.st = "created",
                                              !.pea = sess'.pea]
                           ELSE NoGen
        /\ \A k \in GenKinds :
             (gens[k].st = "created"
                /\ gens'[k].st \in {"open", "done", "error"}) =>
               IF HasFile(fs, gens[k].pea, ArtifactOf(k))
               THEN gens'[k].exc # "FileNotFoundError"
               ELSE /\ gens'[k].st = "error"
                    /\ gens'[k].exc = "FileNotFoundError"
                    /\ gens'[k].out = << >>
        /\ \A k \in GenKinds :
             gens[k].st # "created" =>
               (gens'[k].exc = "FileNotFoundError"
                  => gens[k].exc = "FileNotFoundError")
      ]_vars

FailedAtFirstPull ==
    /\ gens["ids"].st = "error" /\ gens["ids"].exc = "FileNotFoundError"
    /\ gens["vecs"].st = "created"
    /\ ~ HasFile(fs, gens["vecs"].pea, "vectors")
    /\ sess.pea \in DOMAIN fs

\* ------------------------------------------------------------------------
\* Specification of imports from dumps that differ outside one shard
\* ------------------------------------------------------------------------
MaxIsoRecords == 1

\* the shard directory a finished dump leaves for the records recs
DumpedShard(recs) ==
    [has |-> Artifacts, ids |-> IdsOf(recs), vectors |-> VectorsOf(recs),
     metas |-> MetasOf(recs)]

IsoNames == { ShardName(0), ShardName(1) }

\* dump roots of up to two shards: every shard holds any records or has
\* been deleted
InitIsolation ==
    /\ root = "dir"
    /\ \E names \in SUBSET IsoNames :
          \E c \in [names -> { DumpedShard(r) :
                               r \in SeqsUpTo(Records, MaxIsoRecords) }] :
             fs = c
    /\ InitReaders
    /\ InitWriters({}, {1}, {0}, { << >> })

SpecIsolation == InitIsolation /\ [][NextRead]_vars

\* the dump root with every shard but pea removed
OnlyShard(f, pea) == [n \in DOMAIN f \cap {pea} |-> f[n]]

\* the generator g of kind k after n calls of next() in the tree f
RECURSIVE RunAlone(_, _, _, _)
RunAlone(f, k, g, n) ==
    IF n = 0 THEN g ELSE RunAlone(f, k, PullGen(f, k, g), n - 1)

\* the calls of next() a generator has served
PullsOf(g) == Len(g.out) + (IF g.st \in {"done", "error"} THEN 1 ELSE 0)

\* C11 - Shard isolation: what the generators of an import of shard j have
\* yielded, and the state they are in, is what the same number of pulls
\* yields in the tree that holds shard j alone, whatever the other shards
\* hold and whether they exist; hence two dumps that agree on shard j give
\* the same ids, metas and vectors.  The only file a generator passes to
\* open() is the artifact of its kind in shard j.
ShardIsolation ==
    \A k \in GenKinds :
       gens[k].st \in {"created", "open", "done", "error"} =>
          /\ gens[k] = RunAlone(OnlyShard(fs, sess.pea), k,
                                NewGen(OnlyShard(fs, sess.pea), k, sess.pea),
                                PullsOf(gens[k]))
          /\ gens[k].path \in { << >>, << sess.pea, ArtifactOf(k) >> }

\* shard 1 was read to its end next to a shard 0 that holds other records
IsolatedRead ==
    /\ sess.pea = ShardName(1)
    /\ \A k \in GenKinds : gens[k].st = "done" /\ gens[k].out # << >>
    /\ ShardName(0) \in DOMAIN fs
    /\ fs[ShardName(0)] # fs[ShardName(1)]

\* C12 - Dump layout: after a dump with shard_count >= 1 that completed
\* (the root was empty or absent, or the dump would have failed), the root
\* is a directory that holds exactly the sub-directories "0" ..
\* "shard_count - 1" and each of them holds exactly the files ids, vectors
\* and metas, whatever the quota of the shard, 0 included.
DumpLayout ==
    (wpc[1] = "done" /\ shards[1] >= 1) =>
       /\ root = "dir"
       /\ DOMAIN fs = { ToString(i) : i \in 0 .. shards[1] - 1 }
       /\ \A n \in DOMAIN fs : fs[n].has = {"ids", "vectors", "metas"}

\* a completed dump of three shards two of which have the quota 0
LayoutWithEmptyShards ==
    /\ wpc[1] = "done"
    /\ shards[1] = 3
    /\ size[1] = 2
    /\ passed[1] = << 0, 0, 2 >>
    /\ fs["0"].ids = << >>
    /\ fs["2"].ids # << >>

\* ------------------------------------------------------------------------
\* Specification of one dump with the buffers of the artifacts
\* ------------------------------------------------------------------------
NextBuffered ==
    \/ NextDump
    \/ Flush(1)

SpecBuffered == Init /\ [][NextBuffered]_vars

\* what another process finds in artifact a of shard directory name: all
\* of it once the file is closed, what was written through while a writer
\* holds it open
OnDisk(name, a) ==
    LET file == Content(fs[name], a)
        holders == { w \in Writers : Handle(name, a) \in wopen[w] }
    IN  IF holders = {} THEN file
        ELSE SubSeq(file, 1, synced[CHOOSE w \in holders : TRUE][a])

\* the writer waits for the next record of the source, or has finished
WaitingOrFinished == wpc[1] \in {"next", "done"}

\* the first record of shard name in the source
FirstOf(name) ==
    (CHOOSE i \in 0 .. shards[1] - 1 : ShardName(i) = name)
       * (size[1] \div shards[1])

\* C13 as stated - Positional correspondence on disk: whenever the writer
\* waits for the next record, and when the dump has finished, the three
\* artifacts of every shard hold on disk the entries of the same number k
\* of records, the N-th entry of each made from the same pulled record.
OnDiskCorrespondence ==
    WaitingOrFinished =>
       \A n \in DOMAIN fs :
          \E k \in 0 .. Len(data[1]) :
             LET recs == Slice(data[1], FirstOf(n), k)
             IN  /\ OnDisk(n, "ids") = IdsOf(recs)
                 /\ OnDisk(n, "vectors") = VectorsOf(recs)
                 /\ OnDisk(n, "metas") = MetasOf(recs)

\* C13 amended - whenever the writer waits for the next record, and when
\* the dump has finished, the writer has written to the three artifacts of
\* every shard the entries of the same k records, the N-th entry of each
\* made from the same pulled record; an artifact that is closed holds all
\* of them on disk, an artifact that is still open holds on disk the
\* entries of the first j <= k of these records, and j may differ between
\* the three artifacts.
WrittenCorrespondence ==
    WaitingOrFinished =>
       \A n \in DOMAIN fs :
          \E k \in 0 .. Len(data[1]) :
             LET recs == Slice(data[1], FirstOf(n), k)
                 OnDiskOf(a, j) ==
                    LET part == SubSeq(recs, 1, j)
                    IN  OnDisk(n, a) = IF a = "ids" THEN IdsOf(part)
                                       ELSE IF a = "vectors" THEN VectorsOf(part)
                                       ELSE MetasOf(part)
             IN  /\ fs[n].ids = IdsOf(recs)
                 /\ fs[n].vectors = VectorsOf(recs)
                 /\ fs[n].metas = MetasOf(recs)
                 /\ \A a \in Artifacts :
                       IF \E w \in Writers : Handle(n, a) \in wopen[w]
                       THEN \E j \in 0 .. Len(recs) : OnDiskOf(a, j)
                       ELSE OnDiskOf(a, Len(recs))

\* the writer waits for a record while the vectors artifact has an entry
\* on disk and the ids artifact has none
DiskBehind ==
    /\ wpc[1] = "next"
    /\ shard_docs_written[1] >= 1
    /\ OnDisk(ShardName(shard_id[1]), "vectors") # << >>
    /\ OnDisk(ShardName(shard_id[1]), "ids") = << >>

\* C15 - Exact pull count: a dump with shard_count >= 1 never has pulled
\* more than total_size records from the source, a dump that completed has
\* pulled exactly total_size, and once the record number total_size is
\* written the writer pulls no more: it closes the shard and the dump is
\* over, whatever the source still holds.
ExactPullCount ==
    shards[1] >= 1 =>
       /\ pulled[1] <= size[1]
       /\ wpc[1] = "done" => pulled[1] = size[1]
       /\ (pulled[1] = size[1] /\ wpc[1] = "loop"
           /\ shard_id[1] = shards[1] - 1) =>
             shard_docs_written[1] = size_this_shard[1]

\* a completed dump whose source held more records than total_size
SourceLeftOver ==
    /\ wpc[1] = "done"
    /\ shards[1] = 2
    /\ size[1] = 2
    /\ pulled[1] = 2
    /\ Len(data[1]) = 3

\* C16 - Writer handle scope: the handles a dump holds open for writing
\* all belong to one shard, the shard it is writing; none is open when the
\* directory of a shard is about to be created (those of the shard before
\* are closed), none when the dump has completed, none when it has ended
\* in an error, in the middle of a shard included.
WriterHandleScope ==
    /\ \A h \in wopen[1] : h[1] = ShardName(shard_id[1])
    /\ wpc[1] \in {"idle", "makedirs", "listdir", "mkshard", "done", "error"}
          => wopen[1] = {}
    /\ wpc[1] \in {"loop", "next", "write_vec", "write_meta", "write_id",
                   "close"}
          => wopen[1] = { Handle(ShardName(shard_id[1]), a) : a \in Artifacts }

\* the dump ended in an error in the middle of its second shard
FailedInsideSecondShard ==
    /\ wpc[1] = "error"
    /\ exc[1] = "StopIteration"
    /\ shard_id[1] = 1
    /\ fs["1"].has = Artifacts
    /\ fs["1"].ids # << >>
    /\ wopen[1] = {}

\* ------------------------------------------------------------------------
\* Specification of two import calls whose generators are alive together
\* ------------------------------------------------------------------------
InitTwoCalls ==
    /\ root = "dir"
    /\ \E r \in SeqsUpTo(Records, MaxIsoRecords) :
          fs = [n \in IsoNames |->
                  IF n = ShardName(0) THEN DumpedShard(r) ELSE OldShard]
    /\ InitReaders
    /\ InitWriters({}, {1}, {0}, { << >> })

NextTwoCalls ==
    \/ ImportVectors
    \/ ImportMetas
    \/ ImportMetasAndVectors
    \/ Pull
    \/ SecondImport
    \/ SecondPull

SpecTwoCalls == InitTwoCalls /\ [][NextTwoCalls]_vars

\* the generator g of kind k, made by the import call s, is where the
\* pulls it has served take a generator that is consumed alone
AsConsumedAlone(s, k, g) ==
    g.st \in {"created", "open", "done", "error"} =>
       g = RunAlone(fs, k, NewGen(fs, k, s.pea), PullsOf(g))

\* C14 - Reader independence: under every interleaving of the pulls on
\* the generators of one import call and of two import calls, on the same
\* shard or on different shards, every generator has yielded the items,
\* and is at the position, that the same number of pulls gives when it is
\* consumed alone: a pull on one generator moves no other.
ReaderIndependence ==
    \A k \in GenKinds :
       /\ AsConsumedAlone(sess, k, gens[k])
       /\ AsConsumedAlone(sess2, k, gens2[k])

\* two import calls on shard 0 consumed in different orders: the first has
\* finished the ids and not started the vectors, the second has finished
\* the vectors and is in the middle of the ids
InterleavedCalls ==
    /\ sess.pea = ShardName(0)
    /\ sess2.pea = ShardName(0)
    /\ gens["ids"].st = "done"
    /\ gens["ids"].out # << >>
    /\ gens["vecs"].st = "created"
    /\ gens2["vecs"].st = "done"
    /\ gens2["ids"].st = "open"

\* C17 - Reader handle lifecycle: a generator that was not pulled yet has
\* opened no file; one that is suspended at a yield holds the one file it
\* opened at its first pull; one that is exhausted, that raised or that
\* was closed by its consumer holds no open file; no generator reaches
\* open() a second time.
ReaderHandleLifecycle ==
    \A k \in GenKinds :
       LET g == gens[k]
       IN  /\ g.st \in {"none", "created"} => g.fh = "-" /\ g.opens = 0
           /\ g.st = "open" => g.fh = "open" /\ g.opens = 1
           /\ g.st = "done" => g.fh = "closed" /\ g.opens = 1
           /\ g.st = "error" => g.fh # "open" /\ g.opens = 1
           /\ g.st = "closed" => g.fh # "open" /\ g.opens <= 1
           /\ g.fh # "-" => g.path = << sess.pea, ArtifactOf(k) >>

\* of the generators of one import call one was closed after its first
\* item, one was exhausted and one was never pulled
HandlesReleased ==
    /\ gens["vecs"].st = "closed"
    /\ gens["vecs"].out # << >>
    /\ gens["vecs"].fh = "closed"
    /\ gens["ids"].st = "done"
    /\ gens["ids"].out # << >>
    /\ gens["metas"].st = "created"

\* the vector and the metadata of the record are present and not empty
PresentNonEmpty(r) ==
    /\ r.vec.tag = "ndarray" /\ r.vec.v # << >>
    /\ r.meta.tag = "bytes" /\ r.meta.v # << >>

\* C18 - Restricted round trip: after a successful dump with shard_count
\* >= 1 of records whose vectors and metadata are all present and not
\* empty, the ids, metas and vectors read from each shard have the length
\* of the quota of the shard, and concatenated in shard order they equal
\* the source entry by entry.
RestrictedRoundTrip ==
    (/\ wpc[1] = "done" /\ shards[1] >= 1 /\ AllRead
     /\ \A i \in 1 .. size[1] : PresentNonEmpty(data[1][i])) =>
      LET src == SubSeq(data[1], 1, size[1])
      IN  /\ \A j \in 0 .. shards[1] - 1 :
                /\ Len(got[ShardName(j)].ids) = Quota(j, shards[1], size[1])
                /\ Len(got[ShardName(j)].metas) = Quota(j, shards[1], size[1])
                /\ Len(got[ShardName(j)].vecs) = Quota(j, shards[1], size[1])
          /\ CatIds(shards[1]) = [i \in 1 .. Len(src) |-> src[i].id]
          /\ CatMetas(shards[1]) = [i \in 1 .. Len(src) |-> src[i].meta]
          /\ CatVecs(shards[1]) = [i \in 1 .. Len(src) |-> AsRead(src[i].vec)]

\* ------------------------------------------------------------------------
\* Specification of two dumps into the same root, their steps interleaved
\* ------------------------------------------------------------------------
MaxConcRecords == 1

InitConcurrent ==
    /\ root \in {"absent", "dir"}
    /\ fs = EmptyFS
    /\ InitReaders
    /\ InitWriters(Writers, 1 .. MaxReadShards, 0 .. MaxConcRecords,
                   SeqsUpTo(Records, MaxConcRecords))

NextConcurrent ==
    \/ WriterStep(1)
    \/ WriterStep(2)

SpecConcurrent == InitConcurrent /\ [][NextConcurrent]_vars

\* file is the beginning of whole
IsPrefix(file, whole) ==
    Len(file) <= Len(whole) /\ file = SubSeq(whole, 1, Len(file))

\* everything in shard directory name was written by writer w from the
\* records of its own source that belong to this shard
WrittenBy(w, name) ==
    \E i \in 0 .. shards[w] - 1 :
       /\ ShardName(i) = name
       /\ LET recs == Slice(data[w], i * (size[w] \div shards[w]),
                            Quota(i, shards[w], size[w]))
          IN  /\ IsPrefix(fs[name].ids, IdsOf(recs))
              /\ IsPrefix(fs[name].vectors, VectorsOf(recs))
              /\ IsPrefix(fs[name].metas, MetasOf(recs))

\* the dump of writer w can only fail from where it is: the root exists,
\* it is not empty, and the shard directory w is about to make exists
BoundToFail(w) ==
    /\ wpc[w] \in {"idle", "makedirs", "listdir", "mkshard", "error"}
    /\ root = "dir"
    /\ ~ DirIsEmpty(fs)
    /\ wpc[w] = "mkshard" => ShardName(shard_id[w]) \in DOMAIN fs
    /\ wpc[w] = "error" => exc[w] \in {"Exception", "FileExistsError"}

\* C19 - Concurrent writers: of two dumps with shard_count >= 1 into the
\* same empty or absent root, under every interleaving, at most one
\* completes; when one has completed the other has ended in an error of
\* the emptiness check or of os.makedirs, or is at a step before its first
\* shard directory from which it can only end so; the two never hold
\* handles of the same shard, and every shard directory holds records of
\* one source only.
ConcurrentWriters ==
    /\ ~ (wpc[1] = "done" /\ wpc[2] = "done")
    /\ \A w \in Writers : wpc[w] = "done" => BoundToFail(3 - w)
    /\ \A n \in DOMAIN fs :
          /\ OpenedIn(wopen[1], n) = {} \/ OpenedIn(wopen[2], n) = {}
          /\ \E w \in Writers : WrittenBy(w, n)

\* both dumps found the root empty; the first wrote its record and
\* completed, the second failed at os.makedirs of shard 0
RaceLostAtMakedirs ==
    /\ wpc[1] = "done"
    /\ size[1] = 1
    /\ wpc[2] = "error"
    /\ exc[2] = "FileExistsError"
    /\ passed[2] # << >>
    /\ data[1] # data[2]

====
